---- MODULE Spec2Model ----
(***************************************************************************)
(* Model of simple_threat_report.py: the lookups checkactive, checktide    *)
(* and checkoffline, the evaluators checkwebcat and checkcountry, the      *)
(* report generator gen_report and the run of main.                        *)
(*                                                                         *)
(* Strings are sequences of symbols (a symbol stands for one or more       *)
(* characters that always occur together), so that Python's substring test *)
(* `a in b` is the contiguous-subsequence test on them.  Timestamps are     *)
(* integers relative to datetime.fromtimestamp(0); a value that is either  *)
(* a timestamp or '' is a sequence of length 1 or 0.                       *)
(***************************************************************************)
EXTENDS Integers, Sequences, FiniteSets, TLC

VARIABLES
    pc,             \* position of main: "start", "loop", "report", "finally", "done", "exit"
    args,           \* parsed arguments of the run
    input,          \* the lines of the input file
    linecount,      \* main: linecount
    bogus_lines,    \* main: bogus_lines
    activethreats,  \* main: activethreats (dict)
    totalthreats,   \* main: totalthreats (dict)
    web_cats,       \* main: web_cats (dict)
    keys,           \* insertion order of the keys of activethreats
    outfile,        \* main: outfile handle
    bogus_out,      \* main: bogus_out handle
    exitcode,       \* main: exitcode
    report,         \* what gen_report printed
    lists,          \* gen_report: block_categories, country_codes as loaded
    ending,         \* how the try block of main ended
    trail,          \* history of the run: per processed line, the lookups made
    call            \* one top-level lookup call and what it returned

vars == <<pc, args, input, linecount, bogus_lines, activethreats, totalthreats,
          web_cats, keys, outfile, bogus_out, exitcode, report, lists, ending, trail,
          call>>

mainvars == <<pc, args, input, linecount, bogus_lines, activethreats, totalthreats,
              web_cats, keys, outfile, bogus_out, exitcode, report, lists, ending,
              trail>>

----------------------------------------------------------------------------
(* Bounds of the model *)

\* longest input file, in lines
MaxLines == 2
\* most threat records in one adapter response
MaxRecords == 2
\* most adapter answers prepared for one top-level lookup
MaxAnswers == 3

----------------------------------------------------------------------------
(* Strings *)

\* Python: a in b, for strings
Contains(a, b) ==
    \E i \in 0..(Len(b) - Len(a)) : SubSeq(b, i + 1, i + Len(a)) = a

\* Python: str.lower(), symbol by symbol
lower(s) ==
    [i \in 1..Len(s) |->
        CASE s[i] = "Malware" -> "malware"
          [] s[i] = "Uncategorised" -> "uncategorised"
          [] s[i] = "News" -> "news"
          [] OTHER -> s[i]]

\* the indicators of the model
HostDeep == <<"a", ".", "www", ".", "evil", ".", "ru">>
BareDomain == <<"shop", ".", "com">>
IpAddr == <<"1", ".", "2", ".", "3", ".", "4">>
UrlCn == <<"http://", "x", ".", "cn", "/p">>
BogusLine == <<"bad", " ", "line">>

Lines == {HostDeep, BareDomain, IpAddr, UrlCn, BogusLine}

Digits == {"1", "2", "3", "4"}

\* bloxone.utils.data_type: host, ip, url or invalid
data_type(query) ==
    IF \E i \in 1..Len(query) : query[i] = " " THEN "invalid"
    ELSE IF query # <<>> /\ query[1] = "http://" THEN "url"
    ELSE IF \A i \in 1..Len(query) : query[i] \in Digits \cup {"."} THEN "ip"
    ELSE "host"

DotsAt(s) == {i \in 1..Len(s) : s[i] = "."}

\* bloxone.utils.strip_host: the name without its lowest-level label; a name
\* of at most two labels is returned as it is
strip_host(fqdn) ==
    IF Cardinality(DotsAt(fqdn)) > 1
    THEN LET first == CHOOSE i \in DotsAt(fqdn) : \A j \in DotsAt(fqdn) : i <= j
         IN SubSeq(fqdn, first + 1, Len(fqdn))
    ELSE fqdn

----------------------------------------------------------------------------
(* Adapter responses *)

Profiles == {"IID", "SURBL"}
Classes == {"Phishing", "MalwareC2"}
\* parsed timestamps, relative to datetime.fromtimestamp(0)
Timestamps == {-1, 0, 1}

\* the records of the full-history view: the expiration is optional
ThreatRecords ==
    [profile : Profiles, class : Classes, imported : Timestamps]
    \cup [profile : Profiles, class : Classes, imported : Timestamps,
          expiration : Timestamps]

\* the records of the active-state view and the rows of the local table, with
\* the keys that checkactive and checkoffline read
StateRecords == [profile : Profiles, class : Classes]

SeqsUpTo(S, n) == UNION {[1..k -> S] : k \in 0..n}

\* a response: its status is in return_codes_ok or not; threat is the parsed
\* 'threat' list (empty when the key is missing)
FailResponse == [status |-> "fail", threat |-> <<>>]
NoThreats == [status |-> "ok", threat |-> <<>>]
Responses(records) ==
    [status : {"ok"}, threat : SeqsUpTo(records, MaxRecords)] \cup {FailResponse}

\* the responses used in whole runs of main
OneRecord == [profile |-> "IID", class |-> "Phishing", imported |-> 1]
RunResponses == {FailResponse, NoThreats, [status |-> "ok", threat |-> <<OneRecord>>]}

\* The answers of the service to the queries of one top-level lookup, in the
\* order the queries are made: a further query follows only an answer with
\* no threats, so every answer but the last is NoThreats.
Answers(last) ==
    {[i \in 1..k |-> NoThreats] \o <<r>> :
        k \in 0..(MaxAnswers - 1), r \in last \ {NoThreats}}
    \cup {[i \in 1..MaxAnswers |-> NoThreats]}

----------------------------------------------------------------------------
(* collections.Counter, as the sequence of its <<key, count>> items in      *)
(* insertion order                                                         *)

HasKey(cc, key) == \E i \in 1..Len(cc) : cc[i][1] = key

\* a counter that keeps one item per occurrence (what C10 excludes)
IncrAlways(cc, key) == Append(cc, <<key, 1>>)
\* cc[key] += 1
Incr(cc, key) ==
    IF HasKey(cc, key)
    THEN [i \in 1..Len(cc) |-> IF cc[i][1] = key THEN <<key, cc[i][2] + 1>> ELSE cc[i]]
    ELSE Append(cc, <<key, 1>>)

getkeys(cc) == [i \in 1..Len(cc) |-> cc[i][1]]

most_recent(t1, t2) == IF t1 > t2 THEN t1 ELSE t2

\* profiles = "API Exception Occurred"
ApiException == <<"API Exception Occurred">>

\* datetime.datetime.fromtimestamp(0)
EpochSeed == 0

----------------------------------------------------------------------------
(* The lookups.  Each takes the answers of the service to its queries, in   *)
(* order, and returns its results together with the queries it made (log)   *)
(* and the names strip_host was applied to (strips).                        *)

\* checkactive, lines 292-298: the loop over parsed_json['threat']
RECURSIVE ActiveLoop(_, _)
ActiveLoop(threats, acc) ==
    IF threats = <<>> THEN acc
    ELSE ActiveLoop(Tail(threats),
            [totalthreats |-> acc.totalthreats + 1,
             profile_stats |-> Incr(acc.profile_stats, Head(threats).profile),
             class_stats |-> Incr(acc.class_stats, Head(threats).class)])

ActiveStart == [totalthreats |-> 0, profile_stats |-> <<>>, class_stats |-> <<>>]

\* a fallback call that may fall back again (what C4 excludes)
ActiveFallbackAgain == [check_domain |-> TRUE, domain_checked |-> TRUE]
\* checkactive, lines 311-315: the arguments of the fallback call
ActiveFallback == [check_domain |-> FALSE, domain_checked |-> TRUE]

\* a failed query reported as a query without results (what C6 excludes)
ActiveFailureAsNone(domain_checked) == <<0, <<>>, <<>>, domain_checked>>
\* checkactive, lines 318-322: the results of a failed query
ActiveFailure(domain_checked) == <<-1, ApiException, <<>>, domain_checked>>

\* checkactive: results = [ totalthreats, profiles, tclasses, domain_checked ]
RECURSIVE checkactive(_, _, _, _, _)
checkactive(query, qtype, answers, check_domain, domain_checked) ==
    LET response == Head(answers)
        domain == strip_host(query)
    IN  IF response.status = "ok"
        THEN IF response.threat # <<>>
             THEN LET acc == ActiveLoop(response.threat, ActiveStart)
                  IN [results |-> <<acc.totalthreats, getkeys(acc.profile_stats),
                                    getkeys(acc.class_stats), domain_checked>>,
                      log |-> <<query>>, strips |-> <<>>]
             ELSE IF check_domain
                  THEN IF domain # query
                       THEN LET inner == checkactive(domain, qtype, Tail(answers),
                                                     ActiveFallback.check_domain,
                                                     ActiveFallback.domain_checked)
                            IN [results |-> inner.results,
                                log |-> <<query>> \o inner.log,
                                strips |-> <<query>> \o inner.strips]
                       ELSE [results |-> <<0, <<>>, <<>>, domain_checked>>,
                             log |-> <<query>>, strips |-> <<query>>]
                  ELSE [results |-> <<0, <<>>, <<>>, domain_checked>>,
                        log |-> <<query>>, strips |-> <<>>]
        ELSE [results |-> ActiveFailure(domain_checked),
              log |-> <<query>>, strips |-> <<>>]

\* checktide, lines 371-386: the loop over parsed_json['threat']
RECURSIVE TideLoop(_, _)
TideLoop(threats, acc) ==
    IF threats = <<>> THEN acc
    ELSE LET threat == Head(threats)
         IN TideLoop(Tail(threats),
              [totalthreats |-> acc.totalthreats + 1,
               profile_stats |-> Incr(acc.profile_stats, threat.profile),
               class_stats |-> Incr(acc.class_stats, threat.class),
               last_available |-> most_recent(acc.last_available, threat.imported),
               last_expiration |->
                   IF "expiration" \in DOMAIN threat
                   THEN most_recent(acc.last_expiration, threat.expiration)
                   ELSE acc.last_expiration])

TideStart == [totalthreats |-> 0, profile_stats |-> <<>>, class_stats |-> <<>>,
              last_available |-> EpochSeed, last_expiration |-> EpochSeed]

\* checktide, lines 417-421: a date still equal to the seed is reported as ''
\* (a date taken over from the fallback call may be '' already)
DateOut(d) == IF d = <<EpochSeed>> THEN <<>> ELSE d

\* the results of the fallback call taken over without its domain_checked
\* (what C5 excludes)
TideAdoptNoFlag(r, domain_checked) ==
    <<r[1], r[2], r[3], DateOut(r[4]), DateOut(r[5]), domain_checked>>
\* checktide, lines 403-424: the results taken over from the fallback call
TideAdopt(r, domain_checked) ==
    <<r[1], r[2], r[3], DateOut(r[4]), DateOut(r[5]), r[6]>>

\* checktide: results = [ totalthreats, profiles, tclasses, last_available,
\*                        last_expiration, domain_checked ]
RECURSIVE checktide(_, _, _, _, _)
checktide(query, qtype, answers, check_domain, domain_checked) ==
    LET response == Head(answers)
        domain == strip_host(query)
    IN  IF response.status = "ok"
        THEN IF response.threat # <<>>
             THEN LET acc == TideLoop(response.threat, TideStart)
                  IN [results |-> <<acc.totalthreats, getkeys(acc.profile_stats),
                                    getkeys(acc.class_stats),
                                    DateOut(<<acc.last_available>>),
                                    DateOut(<<acc.last_expiration>>), domain_checked>>,
                      log |-> <<query>>, strips |-> <<>>]
             ELSE IF check_domain
                  THEN IF domain # query
                       THEN LET inner == checktide(domain, qtype, Tail(answers),
                                                   FALSE, TRUE)
                            IN [results |-> TideAdopt(inner.results, domain_checked),
                                log |-> <<query>> \o inner.log,
                                strips |-> <<query>> \o inner.strips]
                       ELSE [results |-> <<0, <<>>, <<>>, <<>>, <<>>, domain_checked>>,
                             log |-> <<query>>, strips |-> <<query>>]
                  ELSE [results |-> <<0, <<>>, <<>>, <<>>, <<>>, domain_checked>>,
                        log |-> <<query>>, strips |-> <<>>]
        ELSE [results |-> <<-1, ApiException, <<>>, <<>>, <<>>, domain_checked>>,
              log |-> <<query>>, strips |-> <<>>]

\* checkoffline: rows are the rows of the local table for the query; returns
\* totalthreats, profiles, tclasses
checkoffline(query, qtype, rows) ==
    LET acc == ActiveLoop(rows, ActiveStart)
    IN [results |-> <<acc.totalthreats, getkeys(acc.profile_stats),
                      getkeys(acc.class_stats)>>,
        log |-> <<query>>, strips |-> <<>>]

\* get_web_categories: the names of the categories, ['Uncategorised'] when the
\* service has none, [] when the query failed
get_web_categories(response) ==
    IF response.status = "ok"
    THEN IF response.data # <<>> THEN response.data ELSE << <<"Uncategorised">> >>
    ELSE <<>>

WebCatResponses ==
    {[status |-> "fail", data |-> <<>>],
     [status |-> "ok", data |-> <<>>],
     [status |-> "ok", data |-> << <<"News">>, <<"Malware", "-ish">> >>]}

----------------------------------------------------------------------------
(* The evaluators *)

\* checkwebcat: some block_list item occurs, lower-cased, in some category
checkwebcat(webcats, block_list) ==
    IF webcats # <<>>
    THEN \E i \in 1..Len(block_list) : \E j \in 1..Len(webcats) :
            Contains(lower(block_list[i]), lower(webcats[j]))
    ELSE FALSE

\* checkcountry: some country code occurs in the indicator
checkcountry(domain, country_codes) ==
    IF domain # <<>>
    THEN \E i \in 1..Len(country_codes) : Contains(country_codes[i], domain)
    ELSE FALSE

\* the files load_list reads, when they exist: one item per line
BlockCategoriesFile == << <<"malware">> >>
CountryCodesFile == << <<".", "ru">>, <<".", "cn">> >>

----------------------------------------------------------------------------
(* dict *)

EmptyDict == [x \in {} |-> <<>>]

\* d[key] = value
Put(d, key, value) ==
    [x \in (DOMAIN d) \cup {key} |-> IF x = key THEN value ELSE d[x]]

\* the keys in insertion order, after d[key] = value
KeysPut(ks, key) ==
    IF \E i \in 1..Len(ks) : ks[i] = key THEN ks ELSE Append(ks, key)

\* d.get(key): None is shown as the empty list
Get(d, key) == IF key \in DOMAIN d THEN d[key] ELSE <<>>

----------------------------------------------------------------------------
(* gen_report *)

\* gen_report, lines 625-634: the action of one item
action(active, total, webcats, item, block_categories, country_codes) ==
    IF active[1] > 0 THEN "Active"
    ELSE IF total[1] > 0 THEN "Not Active"
    ELSE IF checkwebcat(webcats, block_categories) THEN "Category Block"
    ELSE IF checkcountry(item, country_codes) THEN "Country Block"
    ELSE ""

\* number of the items whose count in d is not 0, the sentinel -1 included
\* (what C9 excludes)
CountNot0(d, ks) == Cardinality({i \in 1..Len(ks) : d[ks[i]][1] # 0})
\* number of the items whose count in d is above 0
CountAbove0(d, ks) == Cardinality({i \in 1..Len(ks) : d[ks[i]][1] > 0})

\* gen_report, lines 572-607: the report of a run with no historical data
ActiveReport(active, ks, filehandle) ==
    LET total_hosts == Cardinality(DOMAIN active)
        with_active == CountAbove0(active, ks)
    IN [schema |-> "active",
        header |-> filehandle,
        rows |-> [i \in 1..Len(ks) |->
                    [host |-> ks[i],
                     active_threats |-> active[ks[i]][1],
                     active_profiles |-> active[ks[i]][2],
                     active_classes |-> active[ks[i]][3]]],
        summary |-> [Total |-> total_hosts, Active |-> with_active,
                     NotActive |-> total_hosts - with_active]]

\* gen_report, lines 609-665: the report with active and historical data
FullReport(active, total, web_categories, ks, filehandle, block_categories, country_codes) ==
    LET total_hosts == Cardinality(DOMAIN active)
        with_active == CountAbove0(active, ks)
        with_threats == CountAbove0(total, ks)
    IN [schema |-> "full",
        header |-> filehandle,
        rows |-> [i \in 1..Len(ks) |->
                    LET item == ks[i]
                    IN [host |-> item,
                        action |-> action(active[item], total[item],
                                          Get(web_categories, item), item,
                                          block_categories, country_codes),
                        active_threats |-> active[item][1],
                        active_profiles |-> active[item][2],
                        total_indicators |-> total[item][1],
                        indicator_profiles |-> total[item][2],
                        threat_classes |-> total[item][3],
                        last_seen |-> total[item][4],
                        last_expiry |-> total[item][5],
                        domain_checked |-> total[item][6],
                        web_categories |-> Get(web_categories, item)]],
        summary |-> [Total |-> total_hosts, Active |-> with_active,
                     Threats |-> with_threats,
                     NoInfo |-> total_hosts - with_threats]]

\* gen_report, once both lists are loaded
gen_report(active, total, web_categories, ks, filehandle, block_categories, country_codes) ==
    IF Cardinality(DOMAIN total) = 0
    THEN ActiveReport(active, ks, filehandle)
    ELSE FullReport(active, total, web_categories, ks, filehandle,
                    block_categories, country_codes)

NoReport == [schema |-> "none"]
NoLists == [loaded |-> FALSE]
NoFile == [handle |-> FALSE, opens |-> 0, closes |-> 0, written |-> <<>>]
NoCall == [fn |-> "none"]

----------------------------------------------------------------------------
(* main *)

\* main, lines 713-722: activeonly is forced by a local database
activeonly == args.active \/ args.local

Args == [active : BOOLEAN, local : BOOLEAN, check_domains : BOOLEAN,
         webcat : BOOLEAN, output : BOOLEAN, bogus : BOOLEAN]

Inputs == SeqsUpTo(Lines, MaxLines)

\* The run is modelled from line 696 on, args being the parsed arguments.
\* (Line 694 calls parseargs(raw_args) although parseargs takes no parameter.)
Init ==
    /\ pc = "start"
    /\ args \in Args
    /\ input \in Inputs
    /\ linecount = 0
    /\ bogus_lines = 0
    /\ activethreats = EmptyDict
    /\ totalthreats = EmptyDict
    /\ web_cats = EmptyDict
    /\ keys = <<>>
    /\ outfile = NoFile
    /\ bogus_out = NoFile
    /\ exitcode = 0
    /\ report = NoReport
    /\ lists = NoLists
    /\ ending = ""
    /\ trail = <<>>
    /\ call = NoCall

\* open_file: a handle, or False when the file cannot be opened
open_file(ok) == [handle |-> ok, opens |-> IF ok THEN 1 ELSE 0, closes |-> 0,
                  written |-> <<>>]

\* main, lines 717-735: the local database or its table cannot be opened:
\* sys.exit(1)
LocalStoreFails ==
    /\ pc = "start"
    /\ args.local
    /\ pc' = "exit"
    /\ exitcode' = 1
    /\ UNCHANGED <<args, input, linecount, bogus_lines, activethreats, totalthreats,
                   web_cats, keys, outfile, bogus_out, report, lists, ending, trail,
                   call>>

\* main, lines 739-744: the file for bogus lines cannot be opened: exit(1)
BogusOpenFails ==
    /\ pc = "start"
    /\ args.bogus
    /\ pc' = "exit"
    /\ exitcode' = 1
    /\ UNCHANGED <<args, input, linecount, bogus_lines, activethreats, totalthreats,
                   web_cats, keys, outfile, bogus_out, report, lists, ending, trail,
                   call>>

\* main, lines 739-773: the output files are set up and the input file is
\* opened (or open raises IOError, which sets exitcode and goes to finally)
Start ==
    /\ pc = "start"
    /\ bogus_out' = IF args.bogus THEN open_file(TRUE) ELSE NoFile
    /\ \E csv_ok \in BOOLEAN :
          outfile' = IF args.output THEN open_file(csv_ok) ELSE NoFile
    /\ \E input_ok \in BOOLEAN :
          IF input_ok
          THEN pc' = "loop" /\ exitcode' = exitcode /\ ending' = ending
          ELSE pc' = "finally" /\ exitcode' = 1 /\ ending' = "no input"
    /\ UNCHANGED <<args, input, linecount, bogus_lines, activethreats, totalthreats,
                   web_cats, keys, report, lists, trail, call>>

\* a bogus line written with the number of the line before it (what C12
\* excludes)
output_bogus_before(data, file, line_number) ==
    [file EXCEPT !.written = Append(@, <<line_number - 1, data>>)]
\* output_bogus: file.write(str(line_number)+":   "+data+"\n")
output_bogus(data, file, line_number) ==
    [file EXCEPT !.written = Append(@, <<line_number, data>>)]

\* the rows of the local table used in whole runs of main
RunRows == {<<>>, <<OneRecord>>}

\* what the history keeps of one lookup: the function, the queries made, the
\* names stripped, the status of the last answer used, the results
Lookup(fn, out, answers) ==
    [fn |-> fn, log |-> out.log, strips |-> out.strips,
     status |-> answers[Len(out.log)].status, results |-> out.results]

\* main, lines 774-825: one line of the input file
ProcessLine ==
    /\ pc = "loop"
    /\ linecount < Len(input)
    /\ linecount' = linecount + 1
    /\ LET query == input[linecount + 1]
           qtype == data_type(query)
       IN IF qtype # "invalid"
          THEN \E aa \in Answers(RunResponses), ta \in Answers(RunResponses),
                  rows \in RunRows, wr \in WebCatResponses :
                 LET act == IF args.local
                            THEN checkoffline(query, qtype, rows)
                            ELSE checkactive(query, qtype, aa, args.check_domains, FALSE)
                     tide == checktide(query, qtype, ta, args.check_domains, FALSE)
                     cats == qtype = "host" /\ args.webcat
                 IN /\ activethreats' = Put(activethreats, query, act.results)
                    /\ keys' = KeysPut(keys, query)
                    /\ totalthreats' = IF ~activeonly
                                       THEN Put(totalthreats, query, tide.results)
                                       ELSE totalthreats
                    /\ web_cats' = IF cats
                                   THEN Put(web_cats, query, get_web_categories(wr))
                                   ELSE web_cats
                    /\ trail' = Append(trail,
                          [line |-> linecount + 1, query |-> query, qtype |-> qtype,
                           active |-> IF args.local
                                      THEN Lookup("checkoffline", act, <<NoThreats>>)
                                      ELSE Lookup("checkactive", act, aa),
                           total |-> IF ~activeonly
                                     THEN Lookup("checktide", tide, ta)
                                     ELSE NoCall,
                           webcat |-> cats])
                    /\ UNCHANGED <<bogus_lines, bogus_out>>
          ELSE /\ bogus_lines' = bogus_lines + 1
               /\ bogus_out' = IF bogus_out.handle
                               THEN output_bogus(query, bogus_out, linecount + 1)
                               ELSE bogus_out
               /\ trail' = Append(trail,
                      [line |-> linecount + 1, query |-> query, qtype |-> qtype,
                       active |-> NoCall, total |-> NoCall, webcat |-> FALSE])
               /\ UNCHANGED <<activethreats, totalthreats, web_cats, keys>>
    /\ UNCHANGED <<pc, args, input, outfile, exitcode, report, lists, ending, call>>

\* main, lines 774-843: a lookup of the line raises (the transport fails, the
\* body does not parse): an IOError is caught and sets exitcode, any other
\* exception leaves main after the finally block
ProcessingRaises ==
    /\ pc = "loop"
    /\ linecount < Len(input)
    /\ data_type(input[linecount + 1]) # "invalid"
    /\ linecount' = linecount + 1
    /\ pc' = "finally"
    /\ \E caught \in BOOLEAN :
          /\ exitcode' = 1
          /\ ending' = IF caught THEN "IOError" ELSE "raised"
    /\ UNCHANGED <<args, input, bogus_lines, activethreats, totalthreats, web_cats,
                   keys, outfile, bogus_out, report, lists, trail, call>>

\* load_list: the lines of the file
load_list(file) == file

\* main, line 828 and gen_report: the report; open() in load_list raises
\* FileNotFoundError (an IOError) when a list file is missing
GenReport ==
    /\ pc = "loop"
    /\ linecount = Len(input)
    /\ pc' = "finally"
    /\ \E have_block_categories \in BOOLEAN, have_country_codes \in BOOLEAN :
          IF have_block_categories /\ have_country_codes
          THEN /\ lists' = [loaded |-> TRUE,
                            block_categories |-> load_list(BlockCategoriesFile),
                            country_codes |-> load_list(CountryCodesFile)]
               /\ report' = gen_report(activethreats, totalthreats, web_cats, keys,
                                       outfile.handle, lists'.block_categories,
                                       lists'.country_codes)
               /\ exitcode' = exitcode
               /\ ending' = "reported"
          ELSE /\ lists' = lists
               /\ report' = report
               /\ exitcode' = 1
               /\ ending' = "no list"
    /\ UNCHANGED <<args, input, linecount, bogus_lines, activethreats, totalthreats,
                   web_cats, keys, outfile, bogus_out, trail, call>>

\* a handle left open (what C13 excludes)
leave_open(file) == file
\* file.close()
close(file) == [file EXCEPT !.closes = @ + 1]

\* main, lines 834-843: the finally block
Finally ==
    /\ pc = "finally"
    /\ outfile' = IF outfile.handle THEN close(outfile) ELSE outfile
    /\ bogus_out' = IF bogus_out.handle THEN close(bogus_out) ELSE bogus_out
    /\ pc' = "done"
    /\ UNCHANGED <<args, input, linecount, bogus_lines, activethreats, totalthreats,
                   web_cats, keys, exitcode, report, lists, ending, trail, call>>

Next ==
    \/ LocalStoreFails
    \/ BogusOpenFails
    \/ Start
    \/ ProcessLine
    \/ ProcessingRaises
    \/ GenReport
    \/ Finally

Spec == Init /\ [][Next]_vars

----------------------------------------------------------------------------
(* One top-level call of a lookup, on any response of the service: the       *)
(* initial state holds the call to make (todo) and its arguments            *)

\* the indicators looked up: a host with two parent domains and a bare domain
Queries == {HostDeep, BareDomain}

InitCall ==
    /\ pc = "idle"
    /\ args = [active |-> FALSE, local |-> FALSE, check_domains |-> FALSE,
               webcat |-> FALSE, output |-> FALSE, bogus |-> FALSE]
    /\ input = <<>>
    /\ linecount = 0
    /\ bogus_lines = 0
    /\ activethreats = EmptyDict
    /\ totalthreats = EmptyDict
    /\ web_cats = EmptyDict
    /\ keys = <<>>
    /\ outfile = NoFile
    /\ bogus_out = NoFile
    /\ exitcode = 0
    /\ report = NoReport
    /\ lists = NoLists
    /\ ending = ""
    /\ trail = <<>>
    /\ call \in [fn : {"none"}, todo : {"checkactive", "checktide", "checkoffline"},
                query : Queries, check_domain : BOOLEAN]

\* what is kept of a call: its arguments, the answers it used, what it returned
Called(fn, query, check_domain, answers, out) ==
    [fn |-> fn, query |-> query, qtype |-> data_type(query),
     check_domain |-> check_domain,
     answers |-> SubSeq(answers, 1, Len(out.log)),
     log |-> out.log, strips |-> out.strips, results |-> out.results]

CallCheckActive ==
    /\ call.fn = "none"
    /\ call.todo = "checkactive"
    /\ \E answers \in Answers(Responses(StateRecords)) :
          call' = Called("checkactive", call.query, call.check_domain, answers,
                         checkactive(call.query, data_type(call.query), answers,
                                     call.check_domain, FALSE))
    /\ UNCHANGED mainvars

CallCheckTide ==
    /\ call.fn = "none"
    /\ call.todo = "checktide"
    /\ \E answers \in Answers(Responses(ThreatRecords)) :
          call' = Called("checktide", call.query, call.check_domain, answers,
                         checktide(call.query, data_type(call.query), answers,
                                   call.check_domain, FALSE))
    /\ UNCHANGED mainvars

CallCheckOffline ==
    /\ call.fn = "none"
    /\ call.todo = "checkoffline"
    /\ \E rows \in SeqsUpTo(StateRecords, MaxRecords) :
          call' = Called("checkoffline", call.query, FALSE,
                         <<[status |-> "ok", threat |-> rows]>>,
                         checkoffline(call.query, data_type(call.query), rows))
    /\ UNCHANGED mainvars

NextCall ==
    \/ CallCheckActive
    \/ CallCheckTide
    \/ CallCheckOffline

SpecCall == InitCall /\ [][NextCall]_vars

----------------------------------------------------------------------------
(* Properties of the action label (specification Spec) *)

\* the rows of a printed full-mode report
FullRows ==
    IF report.schema = "full"
    THEN {report.rows[i] : i \in 1..Len(report.rows)}
    ELSE {}

\* the label the precedence table gives: Active for an active count above 0,
\* Not Active for an active count of 0 with a historical count above 0,
\* Category Block and Country Block for both counts 0, else no label
TableLabel(active_count, historical_count, category, country) ==
    IF active_count > 0 THEN "Active"
    ELSE IF active_count = 0 /\ historical_count > 0 THEN "Not Active"
    ELSE IF active_count = 0 /\ historical_count = 0 /\ category THEN "Category Block"
    ELSE IF active_count = 0 /\ historical_count = 0 /\ ~category /\ country
         THEN "Country Block"
    ELSE ""

\* C1: in every row of a full-mode report the action is the one the
\* first-match-wins table gives for the row's active count, historical count,
\* category flag and country flag: Active; Not Active (active count 0,
\* historical count above 0); Category Block (both counts 0, category flag);
\* Country Block (both counts 0, no category flag, country flag); else "".
C1_LabelByPrecedence ==
    \A row \in FullRows :
        row.action = TableLabel(row.active_threats, row.total_indicators,
                                checkwebcat(row.web_categories, lists.block_categories),
                                checkcountry(row.host, lists.country_codes))

\* C2: in every row of a full-mode report the action is Not Active if and only
\* if the active count is exactly 0 and the historical count is above 0 (the
\* active count ranging over all checkactive returns, -1 included).
C2_NotActiveIff ==
    \A row \in FullRows :
        (row.action = "Not Active")
            <=> (row.active_threats = 0 /\ row.total_indicators > 0)

----------------------------------------------------------------------------
(* Properties of the parent-domain fallback *)

\* the lookups of the processed lines
TrailLookups(entry) == {l \in {entry.active, entry.total} : l.fn # "none"}

\* C3: for every processed line whose type is ip or url, no lookup of the line
\* applied strip_host and none made a second adapter query.
C3_FallbackHostsOnly ==
    \A i \in 1..Len(trail) :
        trail[i].qtype \in {"ip", "url"} =>
            \A l \in TrailLookups(trail[i]) : l.strips = <<>> /\ Len(l.log) <= 1

\* the lookups that query the service
Remote == {"checkactive", "checktide"}

\* the domain_checked flag of the results of a call
DomainChecked(c) == IF c.fn = "checktide" THEN c.results[6] ELSE c.results[4]

\* C4: a top-level call of checkactive or checktide makes at most two adapter
\* queries, whatever the parent domain's query answers: the direct one and at
\* most one more, on the parent domain of the indicator.
C4_FallbackDepthAtMostOne ==
    call.fn \in Remote =>
        /\ Len(call.log) <= 2
        /\ call.log[1] = call.query
        /\ Len(call.log) = 2 => call.log[2] = strip_host(call.query)

\* a fallback query that found no records for a parent domain that has a
\* parent domain of its own
C4_Witness ==
    /\ call.fn = "checkactive"
    /\ Len(call.log) = 2
    /\ call.answers[2] = NoThreats
    /\ strip_host(call.log[2]) # call.log[2]

\* the values of one key of the records, in order
Column(R, key) == [i \in 1..Len(R) |-> R[i][key]]

\* the distinct values of a sequence, in the order of their first occurrence
FirstOccurrences(seq) ==
    LET F[i \in 0..Len(seq)] ==
            IF i = 0 THEN <<>>
            ELSE IF \E j \in 1..(i - 1) : seq[j] = seq[i] THEN F[i - 1]
            ELSE Append(F[i - 1], seq[i])
    IN F[Len(seq)]

\* count, profiles and classes of the summary of one answer
AnswerCount(r) == IF r.status = "ok" THEN Len(r.threat) ELSE -1
AnswerProfiles(r) ==
    IF r.status = "ok" THEN FirstOccurrences(Column(r.threat, "profile"))
    ELSE ApiException
AnswerClasses(r) == FirstOccurrences(Column(r.threat, "class"))

\* C5: when the direct query of checkactive or checktide succeeds with no
\* records and fallback is enabled, then if strip_host changes the indicator the
\* summary has domain_checked true and count, profiles and classes of the
\* parent domain's answer, and if it does not, no second query is made and the
\* summary has count 0 and domain_checked false; and domain_checked is true
\* only in a summary supplied by the parent-domain query after a direct query
\* with no records.
C5_FallbackSummary ==
    call.fn \in Remote =>
        /\ (call.check_domain /\ call.answers[1] = NoThreats) =>
              IF strip_host(call.query) # call.query
              THEN /\ DomainChecked(call)
                   /\ call.log = <<call.query, strip_host(call.query)>>
                   /\ call.results[1] = AnswerCount(call.answers[2])
                   /\ call.results[2] = AnswerProfiles(call.answers[2])
                   /\ call.results[3] = AnswerClasses(call.answers[2])
              ELSE /\ call.log = <<call.query>>
                   /\ call.results[1] = 0
                   /\ ~DomainChecked(call)
        /\ DomainChecked(call) =>
              /\ call.check_domain
              /\ call.answers[1] = NoThreats
              /\ Len(call.log) = 2

\* a checktide call whose direct query found nothing and whose parent domain
\* has records
C5_Witness ==
    /\ call.fn = "checktide"
    /\ call.check_domain
    /\ call.answers[1] = NoThreats
    /\ Len(call.log) = 2
    /\ call.answers[2].status = "ok"
    /\ Len(call.answers[2].threat) = 2
    /\ call.results[6]

----------------------------------------------------------------------------
(* Properties of the aggregation (specification SpecCall) *)

\* C10: a direct query that succeeds with the records R gives count = |R| and
\* as profiles and classes the distinct profile and class values of R in the
\* order of their first occurrence; with R empty and no fallback the count is
\* 0, profiles and classes are empty and both dates are absent; and in every
\* summary returned, count = 0 implies empty profiles, empty classes and an
\* absent last_imported.
C10_Aggregation ==
    call.fn # "none" =>
        /\ (call.answers[1].status = "ok" /\ Len(call.log) = 1) =>
              LET R == call.answers[1].threat
              IN /\ call.results[1] = Len(R)
                 /\ call.results[2] = FirstOccurrences(Column(R, "profile"))
                 /\ call.results[3] = FirstOccurrences(Column(R, "class"))
                 /\ (R = <<>> /\ call.fn = "checktide") =>
                        call.results[4] = <<>> /\ call.results[5] = <<>>
        /\ call.results[1] = 0 =>
              /\ call.results[2] = <<>>
              /\ call.results[3] = <<>>
              /\ call.fn = "checktide" => call.results[4] = <<>>

\* a direct query with two records of one profile and two classes
C10_Witness ==
    /\ call.fn = "checktide"
    /\ Len(call.log) = 1
    /\ call.answers[1].status = "ok"
    /\ Len(call.answers[1].threat) = 2
    /\ call.answers[1].threat[1].profile = call.answers[1].threat[2].profile
    /\ call.answers[1].threat[1].class # call.answers[1].threat[2].class
    /\ Len(call.results[2]) = 1

\* the greatest of a non-empty set of timestamps
Latest(S) == CHOOSE t \in S : \A u \in S : u <= t

\* C11: when the full-history query that supplies the summary of checktide
\* returns a non-empty record sequence R, last_imported is the greatest
\* imported timestamp of R, and last_expiration is the greatest expiration of
\* the records of R that carry one, absent exactly when no record carries one
\* (timestamps equal to or earlier than the accumulator seed included).
C11_MostRecentDates ==
    (call.fn = "checktide" /\ call.answers[Len(call.log)].status = "ok"
        /\ call.answers[Len(call.log)].threat # <<>>) =>
        LET R == call.answers[Len(call.log)].threat
            imported == {R[i].imported : i \in 1..Len(R)}
            expirations == {R[i].expiration :
                               i \in {j \in 1..Len(R) : "expiration" \in DOMAIN R[j]}}
        IN /\ call.results[4] = <<Latest(imported)>>
           /\ call.results[5] = IF expirations = {} THEN <<>>
                                ELSE <<Latest(expirations)>>

----------------------------------------------------------------------------
(* Properties of the run and its report (specification Spec) *)

\* the processed lines that are indicators
ValidLines == {i \in 1..Len(trail) : trail[i].qtype # "invalid"}

\* the last line on which the indicator of a report row was processed
LastLine(query) ==
    CHOOSE i \in ValidLines :
        /\ trail[i].query = query
        /\ \A j \in ValidLines : trail[j].query = query => j <= i

FailedOn(i) == \E l \in TrailLookups(trail[i]) : l.status = "fail"

C7_MissingListTolerated ==
    ending = "no list" => report.schema # "none" /\ exitcode = 0

\* C8: a printed report has the full-mode schema if and only if the run was
\* started in full mode (history requested, no local store).
C8_ModeFixedAtStart ==
    report.schema # "none" => (report.schema = "full" <=> ~activeonly)

\* C9 as stated: in active-only mode the summary has Total = N, the number of
\* valid input lines, Active = K, the number of those lines whose lookup gave
\* an active count above 0, and Not active = N - K.
C9_SummaryCountsLines ==
    (ending = "reported" /\ activeonly) =>
        LET N == Cardinality(ValidLines)
            K == Cardinality({i \in ValidLines : trail[i].active.results[1] > 0})
        IN /\ report.summary.Total = N
           /\ report.summary.Active = K
           /\ report.summary.NotActive = N - K

\* C9 amended: in active-only mode the summary has Total = N, the number of
\* distinct valid indicators of the input, Active = K, the number of those
\* whose last lookup gave an active count above 0, and Not active = N - K.
C9_SummaryCountsIndicators ==
    (ending = "reported" /\ activeonly) =>
        LET indicators == {trail[i].query : i \in ValidLines}
            N == Cardinality(indicators)
            K == Cardinality({q \in indicators :
                                trail[LastLine(q)].active.results[1] > 0})
        IN /\ report.schema = "active"
           /\ report.summary.Total = N
           /\ report.summary.Active = K
           /\ report.summary.NotActive = N - K

\* an active-only report of an input with the same indicator on two lines,
\* the first lookup failed, the second with an active threat
C9_Witness ==
    /\ ending = "reported"
    /\ activeonly
    /\ Len(trail) = 2
    /\ trail[1].qtype # "invalid"
    /\ trail[1].query = trail[2].query
    /\ trail[1].active.results[1] = -1
    /\ trail[2].active.results[1] > 0
    /\ report.summary.Total = 1
    /\ report.summary.Active = 1

\* the lines of the input read so far that are not indicators, as
\* <<line number, line>>, in order
RECURSIVE BogusOf(_)
BogusOf(n) ==
    IF n = 0 THEN <<>>
    ELSE IF data_type(input[n]) = "invalid"
         THEN Append(BogusOf(n - 1), <<n, input[n]>>)
         ELSE BogusOf(n - 1)

\* C12: for an input line that is invalid no lookup and no category query is
\* made, the line has no entry in activethreats, totalthreats or web_cats, no
\* row in the report and no part in the summary total; the run goes on with
\* the next line; and the file for bogus lines holds exactly the invalid lines
\* read, each with its line number, when that file was given, and nothing is
\* written when it was not.
C12_InvalidLineSkipped ==
    /\ \A i \in 1..Len(trail) :
          data_type(trail[i].query) = "invalid" =>
              /\ trail[i].active = NoCall
              /\ trail[i].total = NoCall
              /\ ~trail[i].webcat
              /\ trail[i].query \notin
                    (DOMAIN activethreats) \cup (DOMAIN totalthreats) \cup (DOMAIN web_cats)
              /\ report.schema # "none" =>
                    /\ \A k \in 1..Len(report.rows) : report.rows[k].host # trail[i].query
                    /\ report.summary.Total
                          = Cardinality({trail[j].query : j \in ValidLines})
    /\ (Len(trail) > 0 /\ data_type(trail[Len(trail)].query) = "invalid"
           /\ ending = "") => pc = "loop" /\ exitcode = 0
    /\ pc \in {"loop", "finally", "done"} =>
          bogus_out.written = IF args.bogus THEN BogusOf(linecount) ELSE <<>>
    /\ bogus_lines = Len(BogusOf(linecount))

\* a finished run with a bogus-line file whose input has an indicator and then
\* an invalid line
C12_Witness ==
    /\ pc = "done"
    /\ ending = "reported"
    /\ args.bogus
    /\ Len(input) = 2
    /\ data_type(input[1]) # "invalid"
    /\ data_type(input[2]) = "invalid"
    /\ bogus_out.written = << <<2, input[2]>> >>
    /\ Len(report.rows) = 1

----------------------------------------------------------------------------
(* Properties of the output files (specification Spec) *)

\* C13: the CSV output file and the bogus-line file are each opened at most
\* once; a handle is not closed before the finally block; and when main has
\* ended every handle that was opened has been closed exactly once, whether
\* the try block ended with the report, with an input file that cannot be
\* opened, or with an exception of a lookup or of gen_report.  A run that
\* exits before the try block has opened no file.
C13_HandlesClosedOnce ==
    \A file \in {outfile, bogus_out} :
        /\ file.opens <= 1
        /\ file.handle <=> file.opens = 1
        /\ file.closes <= file.opens
        /\ pc = "done" => file.closes = file.opens
        /\ pc # "done" => file.closes = 0
        /\ pc = "exit" => file.opens = 0

\* a run with both files open that ended with an exception of a lookup
C13_Witness ==
    /\ pc = "done"
    /\ ending = "raised"
    /\ outfile.opens = 1
    /\ outfile.closes = 1
    /\ bogus_out.opens = 1
    /\ bogus_out.closes = 1

----------------------------------------------------------------------------
(* Properties of the full-mode row and summary (specification Spec) *)

\* C14: in a full-mode row Domain Checked is true whenever the active summary
\* or the historical summary of the indicator came from its parent domain.
C14_DomainCheckedCoversActive ==
    \A row \in FullRows :
        LET entry == trail[LastLine(row.host)]
        IN (entry.active.results[4] \/ entry.total.results[6]) => row.domain_checked

\* C15: in the full-mode summary Active <= Threats <= Total, and No info is
\* the number of indicators with neither an active count nor a historical
\* count above 0, so that no row with action Active is counted there.
C15_ActiveWithinThreats ==
    report.schema = "full" =>
        /\ report.summary.Active <= report.summary.Threats
        /\ report.summary.Threats <= report.summary.Total
        /\ report.summary.NoInfo =
              Cardinality({row \in FullRows :
                              ~(row.active_threats > 0) /\ ~(row.total_indicators > 0)})

====
